---- MODULE Spec2Model ----
(***************************************************************************)
(* Pocket SDR C library, fundamental GNSS SDR functions (src/sdr_func.c).  *)
(*                                                                         *)
(* The module holds several specifications over one set of variables:      *)
(*   Spec        the FFTW plan cache under concurrent corr_fft() callers   *)
(*   SpecMix     the carrier-mixed-data LUT and sdr_mix_carr()             *)
(*   SpecPeak    sdr_corr_max() on the grids a caller may pass             *)
(*   SpecFine    sdr_fine_dop() on the grids and bins a caller may pass    *)
(*   SpecBins    sdr_dop_bins()                                            *)
(*   SpecSearch  repeated sdr_search_code() calls on one power grid        *)
(*   SpecVec     mix_carr() as built with AVX2                             *)
(*   SpecDot     dot_IQ_code() as built with AVX2                          *)
(* Each specification leaves the variables of the others at their initial  *)
(* values.                                                                 *)
(***************************************************************************)
EXTENDS Integers, Sequences, FiniteSets, TLC

\* constants and macros of sdr_func.c
MAX_FFTW_PLAN == 32
NTBL == 256
CSCALE == 10

VARIABLES
    fftw_size,   \* FFTW plan sizes, [0..MAX_FFTW_PLAN-1 -> Nat], 0 = empty slot
    fftw_plans,  \* FFTW plan buffer, [0..MAX_FFTW_PLAN-1 -> <<forward, backward>>]
    nplan,       \* number of plans fftwf_plan_dft_1d() has handed out so far
    mtx,         \* owner of the mutex of get_fftw_plan(), NoThread = unlocked
    pc,          \* position of each thread inside corr_fft()/get_fftw_plan()
    argN,        \* argument N of each thread's call
    li,          \* loop index i of get_fftw_plan() of each thread
    plan,        \* plan[2] of corr_fft() of each thread
    ret,         \* return value of get_fftw_plan() of each thread
    corr,        \* output array corr of each thread's corr_fft() call
    handed,      \* history: plan pairs returned so far, per transform length
    mix_tbl,     \* carrier-mixed-data LUT, [0..NTBL*256-1 -> <<I, Q>>]
    n_init,      \* number of sdr_func_init() calls so far
    mixcall,     \* arguments of the last sdr_mix_carr() call
    IQ,          \* output array IQ of the last sdr_mix_carr() call
    cm_in,       \* arguments P, N, Nmax, M of sdr_corr_max()
    cm_ix,       \* the caller's int ix[2] passed to sdr_corr_max()
    cm_out,      \* what sdr_corr_max() has computed, "none" before the call
    fd_in,       \* arguments P, N, fds, len_fds, ix of sdr_fine_dop()
    fd_out,      \* result of sdr_fine_dop() and the elements it has read
    db_in,       \* arguments T, dop, max_dop of sdr_dop_bins()
    db_out,      \* fds and *len_fds as returned by sdr_dop_bins()
    sc_P,        \* power grid P accumulated by sdr_search_code()
    sc_n,        \* number of sdr_search_code() calls so far
    sc_last,     \* history: array C the last call added, per Doppler bin
    av_in,       \* arguments data, N, p, s of the AVX2 build of mix_carr()
    av_out,      \* its stores into IQ in program order, and the bytes it loads
    dq_in,       \* arguments IQ, code, N of the AVX2 build of dot_IQ_code()
    dq           \* its position, loop index i, lane accumulators and sums (*c)

planVars == <<fftw_size, fftw_plans, nplan, mtx, pc, argN, li, plan, ret, corr, handed>>

mixVars == <<mix_tbl, n_init, mixcall, IQ>>

peakVars == <<cm_in, cm_ix, cm_out>>

fineVars == <<fd_in, fd_out>>

binsVars == <<db_in, db_out>>

searchVars == <<sc_P, sc_n, sc_last>>

vecVars == <<av_in, av_out>>

dotVars == <<dq_in, dq>>

vars == <<planVars, mixVars, peakVars, fineVars, binsVars, searchVars, vecVars, dotVars>>

--------------------------------------------------------------------------
\* FFTW plan cache: get_fftw_plan() and corr_fft()

\* the two threads calling corr_fft() concurrently
Threads == {1, 2}
NoThread == 0

Slots == 0 .. (MAX_FFTW_PLAN - 1)
NullPlan == <<0, 0>>

\* number of occupied slots
Used == Cardinality({i \in Slots : fftw_size[i] # 0})

\* Transform lengths a caller may ask for.  get_fftw_plan() only compares
\* lengths for equality, so new lengths are numbered in the order in which
\* they are first requested: a request is for a length already met (the
\* first or the latest one) or for the next new one.  MAX_FFTW_PLAN + 1
\* distinct lengths can be requested.
ReqLens == {n \in 1 .. (MAX_FFTW_PLAN + 1) : n <= Used + 1 /\ (n = 1 \/ n >= Used)}

\* caller's output array before the call, and what fftwf_execute_dft(plan[1])
\* stores into it
OldCorr(N) == [j \in 1 .. N |-> <<"old", 0>>]
IfftCorr(N, p) == [j \in 1 .. N |-> <<"ifft", p[2]>>]

PlanInit ==
    /\ fftw_size = [i \in Slots |-> 0]
    /\ fftw_plans = [i \in Slots |-> NullPlan]
    /\ nplan = 0
    /\ mtx = NoThread
    /\ pc = [t \in Threads |-> "idle"]
    /\ argN = [t \in Threads |-> 0]
    /\ li = [t \in Threads |-> 0]
    /\ plan = [t \in Threads |-> NullPlan]
    /\ ret = [t \in Threads |-> 0]
    /\ corr = [t \in Threads |-> << >>]
    /\ handed = [n \in 1 .. (MAX_FFTW_PLAN + 1) |-> {}]

\* mutant of Lock: the mutex is taken without waiting for its owner
Lock_NoWait(t, N) ==
    /\ pc[t] \in {"idle", "done"}
    /\ mtx' = t
    /\ pc' = [pc EXCEPT ![t] = "empty"]
    /\ argN' = [argN EXCEPT ![t] = N]
    /\ li' = [li EXCEPT ![t] = 0]
    /\ plan' = [plan EXCEPT ![t] = NullPlan]
    /\ ret' = [ret EXCEPT ![t] = 0]
    /\ corr' = [corr EXCEPT ![t] = OldCorr(N)]
    /\ UNCHANGED <<fftw_size, fftw_plans, nplan, handed>>

\* A thread that is idle, or done with its previous call, enters corr_fft()
\* with a fresh output array and calls get_fftw_plan(N, plan), which takes
\* the mutex (pthread_mutex_lock blocks while another thread owns it).
Lock(t, N) ==
    /\ pc[t] \in {"idle", "done"}
    /\ mtx = NoThread
    /\ mtx' = t
    /\ pc' = [pc EXCEPT ![t] = "empty"]
    /\ argN' = [argN EXCEPT ![t] = N]
    /\ li' = [li EXCEPT ![t] = 0]
    /\ plan' = [plan EXCEPT ![t] = NullPlan]
    /\ ret' = [ret EXCEPT ![t] = 0]
    /\ corr' = [corr EXCEPT ![t] = OldCorr(N)]
    /\ UNCHANGED <<fftw_size, fftw_plans, nplan, handed>>

\* mutant of CheckEmpty: a slot holding another length is planned again
\* (fftw_size[i] != N instead of fftw_size[i] == 0)
CheckEmpty_Evict(t) ==
    /\ pc[t] = "empty"
    /\ li[t] < MAX_FFTW_PLAN
    /\ IF fftw_size[li[t]] # argN[t]
       THEN /\ fftw_plans' = [fftw_plans EXCEPT ![li[t]] = <<nplan + 1, nplan + 2>>]
            /\ fftw_size' = [fftw_size EXCEPT ![li[t]] = argN[t]]
            /\ nplan' = nplan + 2
       ELSE UNCHANGED <<fftw_size, fftw_plans, nplan>>
    /\ pc' = [pc EXCEPT ![t] = "match"]
    /\ UNCHANGED <<mtx, argN, li, plan, ret, corr, handed>>

\* for (i < MAX_FFTW_PLAN): if (fftw_size[i] == 0) { create both plans }
CheckEmpty(t) ==
    /\ pc[t] = "empty"
    /\ li[t] < MAX_FFTW_PLAN
    /\ IF fftw_size[li[t]] = 0
       THEN /\ fftw_plans' = [fftw_plans EXCEPT ![li[t]] = <<nplan + 1, nplan + 2>>]
            /\ fftw_size' = [fftw_size EXCEPT ![li[t]] = argN[t]]
            /\ nplan' = nplan + 2
       ELSE UNCHANGED <<fftw_size, fftw_plans, nplan>>
    /\ pc' = [pc EXCEPT ![t] = "match"]
    /\ UNCHANGED <<mtx, argN, li, plan, ret, corr, handed>>

\* if (fftw_size[i] == N) { plan[0..1] = fftw_plans[i]; unlock; return 1; }
CheckMatch(t) ==
    /\ pc[t] = "match"
    /\ IF fftw_size[li[t]] = argN[t]
       THEN /\ plan' = [plan EXCEPT ![t] = fftw_plans[li[t]]]
            /\ ret' = [ret EXCEPT ![t] = 1]
            /\ handed' = [handed EXCEPT ![argN[t]] = @ \cup {fftw_plans[li[t]]}]
            /\ mtx' = NoThread
            /\ pc' = [pc EXCEPT ![t] = "ret"]
            /\ UNCHANGED li
       ELSE /\ li' = [li EXCEPT ![t] = @ + 1]
            /\ pc' = [pc EXCEPT ![t] = "empty"]
            /\ UNCHANGED <<plan, ret, handed, mtx>>
    /\ UNCHANGED <<fftw_size, fftw_plans, nplan, argN, corr>>

\* loop left with no slot found: log "fftw plan buffer overflow", unlock,
\* return 0
Overflow(t) ==
    /\ pc[t] = "empty"
    /\ li[t] = MAX_FFTW_PLAN
    /\ ret' = [ret EXCEPT ![t] = 0]
    /\ mtx' = NoThread
    /\ pc' = [pc EXCEPT ![t] = "ret"]
    /\ UNCHANGED <<fftw_size, fftw_plans, nplan, argN, li, plan, corr, handed>>

\* mutant of Execute: the return value of get_fftw_plan() is not tested
Execute_NoTest(t) ==
    /\ pc[t] = "ret"
    /\ corr' = [corr EXCEPT ![t] = IfftCorr(argN[t], plan[t])]
    /\ pc' = [pc EXCEPT ![t] = "done"]
    /\ UNCHANGED <<fftw_size, fftw_plans, nplan, mtx, argN, li, plan, ret, handed>>

\* back in corr_fft(): if (!get_fftw_plan(N, plan)) return; otherwise the
\* forward transform, the product with code_fft and the backward transform
\* into corr
Execute(t) ==
    /\ pc[t] = "ret"
    /\ IF ret[t] = 0
       THEN UNCHANGED corr
       ELSE corr' = [corr EXCEPT ![t] = IfftCorr(argN[t], plan[t])]
    /\ pc' = [pc EXCEPT ![t] = "done"]
    /\ UNCHANGED <<fftw_size, fftw_plans, nplan, mtx, argN, li, plan, ret, handed>>

--------------------------------------------------------------------------
\* Carrier-mixed-data LUT: sdr_func_init()

\* (int8_t)ROUND(cos(-2.0 * PI * i / NTBL) * CSCALE) for i = 0 .. NTBL-1
carr_I ==
    << 10,  10,  10,  10,  10,  10,  10,  10,  10,  10,  10,  10,  10,   9,   9,   9,
         9,   9,   9,   9,   9,   9,   9,   8,   8,   8,   8,   8,   8,   8,   7,   7,
         7,   7,   7,   7,   6,   6,   6,   6,   6,   5,   5,   5,   5,   4,   4,   4,
         4,   4,   3,   3,   3,   3,   2,   2,   2,   2,   1,   1,   1,   1,   0,   0,
         0,   0,   0,  -1,  -1,  -1,  -1,  -2,  -2,  -2,  -2,  -3,  -3,  -3,  -3,  -4,
        -4,  -4,  -4,  -4,  -5,  -5,  -5,  -5,  -6,  -6,  -6,  -6,  -6,  -7,  -7,  -7,
        -7,  -7,  -7,  -8,  -8,  -8,  -8,  -8,  -8,  -8,  -9,  -9,  -9,  -9,  -9,  -9,
        -9,  -9,  -9,  -9, -10, -10, -10, -10, -10, -10, -10, -10, -10, -10, -10, -10,
       -10, -10, -10, -10, -10, -10, -10, -10, -10, -10, -10, -10, -10,  -9,  -9,  -9,
        -9,  -9,  -9,  -9,  -9,  -9,  -9,  -8,  -8,  -8,  -8,  -8,  -8,  -8,  -7,  -7,
        -7,  -7,  -7,  -7,  -6,  -6,  -6,  -6,  -6,  -5,  -5,  -5,  -5,  -4,  -4,  -4,
        -4,  -4,  -3,  -3,  -3,  -3,  -2,  -2,  -2,  -2,  -1,  -1,  -1,  -1,   0,   0,
         0,   0,   0,   1,   1,   1,   1,   2,   2,   2,   2,   3,   3,   3,   3,   4,
         4,   4,   4,   4,   5,   5,   5,   5,   6,   6,   6,   6,   6,   7,   7,   7,
         7,   7,   7,   8,   8,   8,   8,   8,   8,   8,   9,   9,   9,   9,   9,   9,
         9,   9,   9,   9,  10,  10,  10,  10,  10,  10,  10,  10,  10,  10,  10,  10 >>

\* (int8_t)ROUND(sin(-2.0 * PI * i / NTBL) * CSCALE) for i = 0 .. NTBL-1
carr_Q ==
    << 0,   0,   0,  -1,  -1,  -1,  -1,  -2,  -2,  -2,  -2,  -3,  -3,  -3,  -3,  -4,
        -4,  -4,  -4,  -4,  -5,  -5,  -5,  -5,  -6,  -6,  -6,  -6,  -6,  -7,  -7,  -7,
        -7,  -7,  -7,  -8,  -8,  -8,  -8,  -8,  -8,  -8,  -9,  -9,  -9,  -9,  -9,  -9,
        -9,  -9,  -9,  -9, -10, -10, -10, -10, -10, -10, -10, -10, -10, -10, -10, -10,
       -10, -10, -10, -10, -10, -10, -10, -10, -10, -10, -10, -10, -10,  -9,  -9,  -9,
        -9,  -9,  -9,  -9,  -9,  -9,  -9,  -8,  -8,  -8,  -8,  -8,  -8,  -8,  -7,  -7,
        -7,  -7,  -7,  -7,  -6,  -6,  -6,  -6,  -6,  -5,  -5,  -5,  -5,  -4,  -4,  -4,
        -4,  -4,  -3,  -3,  -3,  -3,  -2,  -2,  -2,  -2,  -1,  -1,  -1,  -1,   0,   0,
         0,   0,   0,   1,   1,   1,   1,   2,   2,   2,   2,   3,   3,   3,   3,   4,
         4,   4,   4,   4,   5,   5,   5,   5,   6,   6,   6,   6,   6,   7,   7,   7,
         7,   7,   7,   8,   8,   8,   8,   8,   8,   8,   9,   9,   9,   9,   9,   9,
         9,   9,   9,   9,  10,  10,  10,  10,  10,  10,  10,  10,  10,  10,  10,  10,
        10,  10,  10,  10,  10,  10,  10,  10,  10,  10,  10,  10,  10,   9,   9,   9,
         9,   9,   9,   9,   9,   9,   9,   8,   8,   8,   8,   8,   8,   8,   7,   7,
         7,   7,   7,   7,   6,   6,   6,   6,   6,   5,   5,   5,   5,   4,   4,   4,
         4,   4,   3,   3,   3,   3,   2,   2,   2,   2,   1,   1,   1,   1,   0,   0 >>

\* signed 4-bit fields of a packed sample byte: I low nibble, Q high nibble
SDR_CPX8_I(j) == IF j % 16 >= 8 THEN (j % 16) - 16 ELSE j % 16
SDR_CPX8_Q(j) == IF j \div 16 >= 8 THEN (j \div 16) - 16 ELSE j \div 16

\* The table has NTBL * 256 entries, one row of NTBL phases per sample byte;
\* every row is filled by the same two loops.  The rows followed here are
\* those of the sample bytes of the buffers below, and the first and the last
\* row of the table.
TblBytes == {0, 1, 31, 255}
TblIdx == {j * 256 + i : j \in TblBytes, i \in 0 .. (NTBL - 1)}

\* the entry sdr_func_init() stores at index (j << 8) + i
LutEntry(idx) ==
    LET j == idx \div 256
        i == idx % 256
        sI == SDR_CPX8_I(j)
        sQ == SDR_CPX8_Q(j)
    IN  << sI * carr_I[i + 1] - sQ * carr_Q[i + 1],
           sI * carr_Q[i + 1] + sQ * carr_I[i + 1] >>

ZeroTbl == [idx \in TblIdx |-> <<0, 0>>]
FullTbl == [idx \in TblIdx |-> LutEntry(idx)]

\* bound on the number of sdr_func_init() calls followed
MaxInit == 2

\* mutant of sdr_func_init: the products are added to the entries (+=)
sdr_func_init_Add ==
    /\ n_init < MaxInit
    /\ mix_tbl' = [idx \in TblIdx |->
                     << mix_tbl[idx][1] + LutEntry(idx)[1],
                        mix_tbl[idx][2] + LutEntry(idx)[2] >>]
    /\ n_init' = n_init + 1
    /\ UNCHANGED <<mixcall, IQ>>

\* sdr_func_init(): both loops, every entry assigned
sdr_func_init ==
    /\ n_init < MaxInit
    /\ mix_tbl' = [idx \in TblIdx |-> LutEntry(idx)]
    /\ n_init' = n_init + 1
    /\ UNCHANGED <<mixcall, IQ>>

--------------------------------------------------------------------------
\* Carrier mixer: mix_carr() and sdr_mix_carr()

\* double scale = 1 << 24
TwoP24 == 16777216

\* A 32-bit unsigned phase is the record [hi, lo]: hi its top 8 bits (the
\* LUT phase index p >> 24), lo its low 24 bits.  p + s modulo 2^32:
AddU32(p, s) ==
    LET l == p.lo + s.lo
    IN  [hi |-> (p.hi + s.hi + l \div TwoP24) % 256, lo |-> l % TwoP24]

\* A double holding phi * scale or step * scale is the record [hi, lo, fr]
\* with value hi * 2^24 + lo + fr / 2, fr in {0, 1}; hi is not limited to
\* 8 bits.  The values used are exactly representable, so the double
\* arithmetic of sdr_mix_carr() on them is exact.
\* (phi + step * n) * scale:
PhiAfter(phi, step, n) ==
    LET f == phi.fr + step.fr * n
        l == phi.lo + step.lo * n + f \div 2
    IN  [hi |-> phi.hi + step.hi * n + l \div TwoP24, lo |-> l % TwoP24, fr |-> f % 2]

\* (uint32_t)x of a non-negative double x.  A value below 2^32 is truncated
\* towards zero.  For a value of 2^32 or more the conversion is undefined:
\* a build that converts through 64 bits keeps the low 32 bits ("wrap"), a
\* build with a saturating conversion instruction gives 0xFFFFFFFF
\* ("saturate").
ConvModes == {"wrap", "saturate"}
ToU32(x, mode) ==
    IF x.hi < 256 THEN [hi |-> x.hi, lo |-> x.lo]
    ELSE IF mode = "wrap" THEN [hi |-> x.hi % 256, lo |-> x.lo]
    ELSE [hi |-> 255, lo |-> TwoP24 - 1]

\* scalar loop of mix_carr(): for (; i < N; i++, p += s)
\*     IQ[i] = mix_tbl[((int)data[i] << 8) + (p >> 24)], data = buff->data + ix
RECURSIVE MixLoop(_, _, _, _, _, _, _)
MixLoop(tbl, buff, ix, i, N, p, s) ==
    IF i >= N THEN << >>
    ELSE << tbl[buff[ix + i + 1] * 256 + p.hi] >>
         \o MixLoop(tbl, buff, ix, i + 1, N, AddU32(p, s), s)

\* mix_carr(buff, ix, N, phi, step, IQ), phiS = phi * scale, stepS = step * scale
mix_carr(tbl, buff, ix, N, phiS, stepS, mode) ==
    MixLoop(tbl, buff, ix, 0, N, ToU32(phiS, mode), ToU32(stepS, mode))

\* size of the IF data buffer buff->N
BuffN == 3

\* sample bytes: 0x01 (I = 1, Q = 0) and 0x1F (I = -1, Q = 1); the buffers
\* alternate two of them
SampleBytes == {1, 31}
Buffers == {[k \in 1 .. BuffN |-> IF k % 2 = 1 THEN a ELSE b] : a, b \in SampleBytes}

\* values of fmod(phi, 1.0) * NTBL * 2^24
PhiVals ==
    { [hi |-> 2, lo |-> TwoP24 - 1, fr |-> 0],
      [hi |-> 200, lo |-> 0, fr |-> 0] }
\* values of fc / fs * NTBL * 2^24
StepVals ==
    { [hi |-> 0, lo |-> 0, fr |-> 1],
      [hi |-> 1, lo |-> 0, fr |-> 0],
      [hi |-> 100, lo |-> 5, fr |-> 0] }

\* the arguments the caller passes to sdr_mix_carr()
MixInputs ==
    [buff : Buffers, ix : 0 .. (BuffN - 1), N : 1 .. BuffN, phi : PhiVals, step : StepVals]

\* static initializer of mix_tbl; the caller's arguments are fixed up front,
\* IQ = << >> as long as sdr_mix_carr() has not been called
MixInit ==
    /\ mix_tbl = ZeroTbl
    /\ n_init = 0
    /\ mixcall \in MixInputs
    /\ IQ = << >>

\* the other specifications do not mix
MixIdle ==
    /\ mix_tbl = ZeroTbl
    /\ n_init = 0
    /\ mixcall = [buff |-> << >>, ix |-> 0, N |-> 0, phi |-> [hi |-> 0, lo |-> 0, fr |-> 0],
                  step |-> [hi |-> 0, lo |-> 0, fr |-> 0]]
    /\ IQ = << >>

\* sdr_mix_carr(buff, ix, N, fs, fc, phi, IQ) with step = fc / fs * NTBL and
\* phi = fmod(phi, 1.0) * NTBL already formed
sdr_mix_carr(buff, ix, N, phiS, stepS) ==
    /\ \E mode \in ConvModes :
         IF ix + N <= BuffN
         THEN IQ' = mix_carr(mix_tbl, buff, ix, N, phiS, stepS, mode)
         ELSE LET n == BuffN - ix
              IN  IQ' = mix_carr(mix_tbl, buff, ix, n, phiS, stepS, mode)
                        \o mix_carr(mix_tbl, buff, 0, N - n,
                                    PhiAfter(phiS, stepS, n), stepS, mode)
    /\ UNCHANGED <<mix_tbl, n_init, mixcall>>

--------------------------------------------------------------------------
\* Max correlation power: sdr_corr_max()

\* rows (Doppler bins) and row length N (code offsets) of the grid P
GridM == 2
GridN == 2

\* correlation powers of the cells
PVals == {0, 1, 2}

\* what the caller's ix[2] may hold before the call
IxBefore == {<<0, 0>>, <<1, 1>>}

PeakInputs ==
    [P : [0 .. (GridM * GridN - 1) -> PVals], N : {GridN},
     Nmax : 1 .. GridN, M : 1 .. GridM]

\* The two loops of sdr_corr_max() over the cells k = i * Nmax + j in
\* row-major order.  st = [P_max, sum, n, ix]; P_ave is the running mean
\* sum / n of the cells visited so far.
RECURSIVE CorrMaxScan(_, _, _, _, _, _)
CorrMaxScan(Pg, N, Nmax, M, k, st) ==
    IF k >= M * Nmax THEN st
    ELSE LET i == k \div Nmax
             j == k % Nmax
             v == Pg[i * N + j]
             st1 == [st EXCEPT !.sum = @ + v, !.n = @ + 1]
         IN  CorrMaxScan(Pg, N, Nmax, M, k + 1,
                 IF v <= st1.P_max THEN st1
                 ELSE [st1 EXCEPT !.P_max = v, !.ix = <<i, j>>])

PeakInit ==
    /\ cm_in \in PeakInputs
    /\ cm_ix \in IxBefore
    /\ cm_out = "none"

PeakIdle ==
    /\ cm_in = [P |-> << >>, N |-> 0, Nmax |-> 0, M |-> 0]
    /\ cm_ix = <<0, 0>>
    /\ cm_out = "none"

\* sdr_corr_max(P, N, Nmax, M, T, ix): P_max = 0.0, P_ave = 0.0, n = 0, the
\* scan, and the return value, which is 0 unless P_ave > 0 and otherwise
\* 10 * log10((P_max - P_ave) / P_ave / T), a function of P_max, sum / n, T
sdr_corr_max ==
    /\ cm_out = "none"
    /\ LET st == CorrMaxScan(cm_in.P, cm_in.N, cm_in.Nmax, cm_in.M, 0,
                             [P_max |-> 0, sum |-> 0, n |-> 0, ix |-> cm_ix])
       IN  /\ cm_ix' = st.ix
           /\ cm_out' = IF st.sum > 0 THEN "dBHz" ELSE "zero"
    /\ UNCHANGED cm_in

--------------------------------------------------------------------------
\* Fine Doppler frequency: poly_fit() and sdr_fine_dop()

\* a C array with the elements of the sequence s, indexed from 0
Arr(s) == [i \in 0 .. (Len(s) - 1) |-> s[i + 1]]

Abs(a) == IF a < 0 THEN -a ELSE a

\* Doppler bins (Hz) passed as fds, len_fds being the length
FdsSet ==
    {<<100>>, <<100, 200>>, <<100, 200, 300>>, <<300, 200, 100>>,
     <<100, 100, 300>>, <<200, 200, 200>>}

\* row lengths N and powers of the grid P
FineCols == {1, 2}
FinePVals == {1, 3, 4}

FineInputs ==
    UNION {UNION {[P : [0 .. (Len(f) * n - 1) -> FinePVals], N : {n},
                   fds : {Arr(f)}, len_fds : {Len(f)},
                   ix : {Arr(<<a, b>>) : a \in 0 .. (Len(f) - 1), b \in 0 .. (n - 1)}]
                  : n \in FineCols} : f \in FdsSet}

\* what the local array p[3] of sdr_fine_dop() holds before it is written
StaleP == {[p1 |-> 0, p2 |-> 0, d |-> 1], [p1 |-> 7, p2 |-> 1, d |-> 1]}

\* lsq(V, y, 3, 3, p, Q) of RTKLIB for the Vandermonde matrix of x[0..2]:
\* it solves the normal equations, which for three points is the
\* interpolating quadratic p0 + p1 x + p2 x^2, and reports a non-zero status
\* without writing p when the matrix is singular, that is when two of the
\* x[i] coincide.  p1 and p2 are kept as fractions p1 / d and p2 / d.
lsq(x, y) ==
    LET d == (x[1] - x[0]) * (x[2] - x[0]) * (x[2] - x[1])
        n2 == y[0] * (x[2] - x[1]) - y[1] * (x[2] - x[0]) + y[2] * (x[1] - x[0])
        n1 == -(y[0] * (x[1] + x[2]) * (x[2] - x[1])
                - y[1] * (x[0] + x[2]) * (x[2] - x[0])
                + y[2] * (x[0] + x[1]) * (x[1] - x[0]))
    IN  IF d # 0
        THEN {[stat |-> 0, p |-> [p1 |-> n1, p2 |-> n2, d |-> d]]}
        ELSE {[stat |-> -1, p |-> g] : g \in StaleP}

\* mutant of poly_fit: the status of lsq() is returned as it is
poly_fit_Stat(x, y, nx, np) ==
    IF nx < np
    THEN {[ret |-> 0, fit |-> "none", p |-> g] : g \in StaleP}
    ELSE {[ret |-> IF r.stat # 0 THEN 1 ELSE 0,
           fit |-> IF r.stat = 0 THEN "ok" ELSE "fail", p |-> r.p] : r \in lsq(x, y)}

\* poly_fit(x, y, nx, np, p): 0 if nx < np, otherwise !stat of lsq(); fit
\* records what lsq() reported
poly_fit(x, y, nx, np) ==
    IF nx < np
    THEN {[ret |-> 0, fit |-> "none", p |-> g] : g \in StaleP}
    ELSE {[ret |-> IF r.stat # 0 THEN 0 ELSE 1,
           fit |-> IF r.stat = 0 THEN "ok" ELSE "fail", p |-> r.p] : r \in lsq(x, y)}

\* return values of sdr_fine_dop() as fractions num / den
Bin(f) == [kind |-> "bin", num |-> f, den |-> 1]

\* mutant of Vertex: -p[1] / p[2]
Vertex_NoHalf(p) == [kind |-> "vertex", num |-> -p.p1, den |-> p.p2]

\* -p[1] / (2.0 * p[2])
Vertex(p) == [kind |-> "vertex", num |-> -p.p1, den |-> 2 * p.p2]

FineIdleOut ==
    [called |-> FALSE, ret |-> Bin(0), fit |-> "none",
     p |-> [p1 |-> 0, p2 |-> 0, d |-> 1], rd_fds |-> {}, rd_P |-> {}]

FineInit ==
    /\ fd_in \in FineInputs
    /\ fd_out = FineIdleOut

FineIdle ==
    /\ fd_in = [P |-> << >>, N |-> 0, fds |-> << >>, len_fds |-> 0, ix |-> <<0, 0>>]
    /\ fd_out = FineIdleOut

\* sdr_fine_dop(P, N, fds, len_fds, ix); rd_fds and rd_P are the indices of
\* fds and P the call reads
sdr_fine_dop ==
    /\ ~fd_out.called
    /\ LET P == fd_in.P
           N == fd_in.N
           fds == fd_in.fds
           len_fds == fd_in.len_fds
           ix == fd_in.ix
       IN  IF ix[0] = 0 \/ ix[0] = len_fds - 1
           THEN fd_out' = [FineIdleOut EXCEPT !.called = TRUE,
                                              !.ret = Bin(fds[ix[0]]),
                                              !.rd_fds = {ix[0]}]
           ELSE LET x == [i \in 0 .. 2 |-> fds[ix[0] - 1 + i]]
                    y == [i \in 0 .. 2 |-> P[(ix[0] - 1 + i) * N + ix[1]]]
                IN  \E r \in poly_fit(x, y, 3, 3) :
                        fd_out' = [called |-> TRUE,
                                   ret |-> IF r.ret = 0 THEN Bin(fds[ix[0]])
                                           ELSE Vertex(r.p),
                                   fit |-> r.fit,
                                   p |-> r.p,
                                   rd_fds |-> {ix[0] - 1 + i : i \in 0 .. 2},
                                   rd_P |-> {(ix[0] - 1 + i) * N + ix[1] : i \in 0 .. 2}]
    /\ UNCHANGED fd_in

--------------------------------------------------------------------------
\* Doppler search bins: sdr_dop_bins()

\* DOP_STEP = 0.5 (Hz * s) in units of 1e-3, the code cycle T being in ms
DOP_STEP == 500

\* Code cycles T (ms); DOP_STEP / T and every bin below are integers (Hz),
\* which single precision holds exactly.
Cycles == {1, 2, 4, 5, 10, 20}
Dops == {-1000, -250, 0, 300, 2000}
MaxDops == {0, 100, 250, 300, 500, 1000}

BinsInputs == [T : Cycles, dop : Dops, max_dop : MaxDops]

\* step = DOP_STEP / T
DopStep(T) == DOP_STEP \div T

\* mutant of DopBin: (i + 1) * step
DopBin_Next(dop, max_dop, i, step) == dop - max_dop + (i + 1) * step

\* fds[i] = dop - max_dop + i * step
DopBin(dop, max_dop, i, step) == dop - max_dop + i * step

BinsIdleOut == [called |-> FALSE, fds |-> << >>, len_fds |-> 0]

BinsInit ==
    /\ db_in \in BinsInputs
    /\ db_out = BinsIdleOut

BinsIdle ==
    /\ db_in = [T |-> 1, dop |-> 0, max_dop |-> 0]
    /\ db_out = BinsIdleOut

\* sdr_dop_bins(T, dop, max_dop, len_fds); (int) truncates the non-negative
\* quotient 2.0 * max_dop / step
sdr_dop_bins ==
    /\ ~db_out.called
    /\ LET step == DopStep(db_in.T)
           len == (2 * db_in.max_dop) \div step + 1
       IN  db_out' = [called |-> TRUE,
                      fds |-> [i \in 0 .. (len - 1) |->
                                  DopBin(db_in.dop, db_in.max_dop, i, step)],
                      len_fds |-> len]
    /\ UNCHANGED db_in

--------------------------------------------------------------------------
\* Parallel code search: sdr_search_code() over sdr_corr_fft()

\* Doppler bins len_fds and samples N of the search, and the number of calls
SearchK == 2
SearchN == 2
MaxSearch == 2

\* a float that is not a number
NaN == -1000000

FAdd(a, b) == IF a = NaN \/ b = NaN THEN NaN ELSE a + b
FSqr(a) == IF a = NaN THEN NaN ELSE a * a

\* a >= b and a == b on floats: false when either is not a number
FGeq(a, b) == a # NaN /\ b # NaN /\ a >= b
FEq(a, b) == a # NaN /\ b # NaN /\ a = b

\* correlations <<re, im>> the backward transform may store into C[j]
CVals == {<<0, 0>>, <<1, -2>>}
CorrArrays == [0 .. (SearchN - 1) -> CVals]

\* contents of the array C = sdr_cpx_malloc(N), which is not initialised
UninitC ==
    {[j \in 0 .. (SearchN - 1) |-> v] : v \in {<<0, 0>>, <<3, 4>>, <<NaN, 0>>}}

\* get_fftw_plan(N, plan) run by one thread: the slot whose plans are
\* returned, the first one that is empty or holds N, or -1 on overflow
PlanSlot(size, N) ==
    LET hit == {i \in Slots : size[i] = 0 \/ size[i] = N}
    IN  IF hit = {} THEN -1 ELSE CHOOSE i \in hit : \A k \in hit : i <= k

\* a plan cache holding MAX_FFTW_PLAN transform lengths other than SearchN
PlanFull ==
    /\ fftw_size = [i \in Slots |-> SearchN + 1 + i]
    /\ fftw_plans = [i \in Slots |-> <<2 * i + 1, 2 * i + 2>>]
    /\ nplan = 2 * MAX_FFTW_PLAN
    /\ mtx = NoThread
    /\ pc = [t \in Threads |-> "idle"]
    /\ argN = [t \in Threads |-> 0]
    /\ li = [t \in Threads |-> 0]
    /\ plan = [t \in Threads |-> NullPlan]
    /\ ret = [t \in Threads |-> 0]
    /\ corr = [t \in Threads |-> << >>]
    /\ handed = [n \in 1 .. (MAX_FFTW_PLAN + 1) |-> {}]

SearchCells == (0 .. (SearchK - 1)) \X (0 .. (SearchN - 1))

SearchIdleLast == [ok |-> FALSE, C |-> << >>]

SearchInit ==
    /\ sc_P \in {[c \in SearchCells |-> v] : v \in {0, 1}}
    /\ sc_n = 0
    /\ sc_last = SearchIdleLast

SearchIdle ==
    /\ sc_P = << >>
    /\ sc_n = 0
    /\ sc_last = SearchIdleLast

\* sdr_search_code(code_fft, T, buff, ix, N, fs, fi, fds, len_fds, P) with
\* N = SearchN and len_fds = SearchK.  For each bin i sdr_corr_fft() mixes
\* the carrier and calls corr_fft(), which returns without writing C when
\* get_fftw_plan() returns 0 and otherwise stores the correlation F[i];
\* then P[i*N+j] += SQR(C[j][0]) + SQR(C[j][1]).  The first corr_fft() of the
\* call may plan SearchN; the later ones find it.  sdr_sleep_msec() every 22
\* bins changes no state.
sdr_search_code ==
    /\ sc_n < MaxSearch
    /\ \E U \in UninitC, F \in [0 .. (SearchK - 1) -> CorrArrays] :
         LET s == PlanSlot(fftw_size, SearchN)
             ok == s # -1
             C == [i \in 0 .. (SearchK - 1) |-> IF ok THEN F[i] ELSE U]
         IN  /\ sc_P' = [c \in SearchCells |->
                            FAdd(sc_P[c], FAdd(FSqr(C[c[1]][c[2]][1]),
                                               FSqr(C[c[1]][c[2]][2])))]
             /\ sc_last' = [ok |-> ok, C |-> C]
             /\ IF ok /\ fftw_size[s] = 0
                THEN /\ fftw_size' = [fftw_size EXCEPT ![s] = SearchN]
                     /\ fftw_plans' = [fftw_plans EXCEPT ![s] = <<nplan + 1, nplan + 2>>]
                     /\ nplan' = nplan + 2
                ELSE UNCHANGED <<fftw_size, fftw_plans, nplan>>
    /\ sc_n' = sc_n + 1
    /\ UNCHANGED <<mtx, pc, argN, li, plan, ret, corr, handed>>

-----------------------------------------------------------------------------------------------------------------------------------------------
\* Carrier mixer built with AVX2: the 8-lane loop of mix_carr() and its
\* scalar tail

\* s * k modulo 2^32, k small
MulU32(s, k) ==
    LET l == s.lo * k
    IN  [hi |-> (s.hi * k + l \div TwoP24) % 256, lo |-> l % TwoP24]

\* longest window followed
VecMaxN == 33

\* sample bytes of the window: data[k] runs through one of these patterns
DataPats == {<<1>>, <<31, 255>>, <<0, 1, 31, 255, 1>>}

\* initial accumulators p and increments s
VecP == {[hi |-> 0, lo |-> 0], [hi |-> 200, lo |-> 12345], [hi |-> 255, lo |-> TwoP24 - 1]}
VecS ==
    {[hi |-> 0, lo |-> 0], [hi |-> 0, lo |-> TwoP24 - 1], [hi |-> 100, lo |-> 5],
     [hi |-> 255, lo |-> TwoP24 - 1]}

VecInputs ==
    UNION {[data : {[k \in 0 .. (n - 1) |-> pat[(k % Len(pat)) + 1]] : pat \in DataPats},
            N : {n}, p : VecP, s : VecS] : n \in 0 .. VecMaxN}

\* yphi = _mm256_set_epi32(p+s*7, ..., p+s, p): lane k holds p + s * k
LanesInit(p, s) == [k \in 0 .. 7 |-> AddU32(p, MulU32(s, k))]

\* The loop for ( ; i < N - 16; i += 8).  One pass loads the 16 bytes
\* data[i .. i+15], widens the low 8 of them to 32 bits, forms
\* idx[k] = (data[i+k] << 8) + (yphi[k] >> 24) (logical shift), stores
\* IQ[i+k] = mix_tbl[idx[k]] for k = 0 .. 7 and adds ystp = s * 8 to every
\* lane.  st = [i, yphi, wr, rd]: wr the stores into IQ in program order,
\* rd the indices of data loaded.
RECURSIVE VecLoop(_, _, _, _, _)
VecLoop(tbl, data, N, s, st) ==
    IF ~(st.i < N - 16) THEN st
    ELSE VecLoop(tbl, data, N, s,
             [i |-> st.i + 8,
              yphi |-> [k \in 0 .. 7 |-> AddU32(st.yphi[k], MulU32(s, 8))],
              wr |-> st.wr \o [k \in 1 .. 8 |->
                                  LET idx == data[st.i + k - 1] * 256 + st.yphi[k - 1].hi
                                  IN  [at |-> st.i + k - 1, idx |-> idx, val |-> tbl[idx]]],
              rd |-> st.rd \cup (st.i .. (st.i + 15))])

\* mutant of TailStart: the tail starts from p
TailStart_NoAdvance(p, s, i) == p

\* p += s * i before the scalar loop
TailStart(p, s, i) == AddU32(p, MulU32(s, i))

\* for ( ; i < N; i++, p += s) IQ[i] = mix_tbl[((int)data[i] << 8) + (p >> 24)]
RECURSIVE TailLoop(_, _, _, _, _, _)
TailLoop(tbl, data, N, p, s, st) ==
    IF st.i >= N THEN st
    ELSE TailLoop(tbl, data, N, AddU32(p, s), s,
             [st EXCEPT !.i = @ + 1,
                        !.wr = Append(@, [at |-> st.i, idx |-> data[st.i] * 256 + p.hi,
                                          val |-> tbl[data[st.i] * 256 + p.hi]]),
                        !.rd = @ \cup {st.i}])

VecIdleOut == [called |-> FALSE, wr |-> << >>, rd |-> {}]

VecInit ==
    /\ av_in \in VecInputs
    /\ av_out = VecIdleOut

VecIdle ==
    /\ av_in = [data |-> << >>, N |-> 0, p |-> [hi |-> 0, lo |-> 0], s |-> [hi |-> 0, lo |-> 0]]
    /\ av_out = VecIdleOut

\* the LUT as sdr_func_init() has left it
MixReady ==
    /\ mix_tbl = FullTbl
    /\ n_init = 1
    /\ mixcall = [buff |-> << >>, ix |-> 0, N |-> 0, phi |-> [hi |-> 0, lo |-> 0, fr |-> 0],
                  step |-> [hi |-> 0, lo |-> 0, fr |-> 0]]
    /\ IQ = << >>

\* mix_carr() compiled with AVX2 defined, from p and s as converted at its
\* entry: the 8-lane loop, then the scalar loop from where it stopped
mix_carr_avx2 ==
    /\ ~av_out.called
    /\ LET v == VecLoop(mix_tbl, av_in.data, av_in.N, av_in.s,
                        [i |-> 0, yphi |-> LanesInit(av_in.p, av_in.s),
                         wr |-> << >>, rd |-> {}])
           t == TailLoop(mix_tbl, av_in.data, av_in.N,
                         TailStart(av_in.p, av_in.s, v.i), av_in.s, v)
       IN  av_out' = [called |-> TRUE, wr |-> t.wr, rd |-> t.rd]
    /\ UNCHANGED av_in

--------------------------------------------------------------------------
\* Inner product of IQ data and code built with AVX2: sum_16x16() and
\* dot_IQ_code()

\* two's complement wrap of a signed 8-bit and a signed 16-bit lane
Wrap8(x) == ((x + 128) % 256) - 128
Wrap16(x) == ((x + 32768) % 65536) - 32768

\* signed saturation to 16 bits
Sat16(x) == IF x > 32767 THEN 32767 ELSE IF x < -32768 THEN -32768 ELSE x

\* _mm256_sign_epi8(a, b) on one byte lane
Sign8(a, b) == IF b < 0 THEN Wrap8(-a) ELSE IF b = 0 THEN 0 ELSE a

\* _mm256_maddubs_epi16 on one 16-bit lane: unsigned bytes u0, u1 times
\* signed bytes s0, s1, added with signed saturation
Maddubs(u0, s0, u1, s1) == Sat16(u0 * s0 + u1 * s1)

\* a single-precision value holding an integer: x rounded to 24 significant
\* bits, ties to even (|x| < 2^28)
F32(x) ==
    LET m == Abs(x)
        u == IF m < TwoP24 THEN 1 ELSE IF m < 2 * TwoP24 THEN 2
             ELSE IF m < 4 * TwoP24 THEN 4 ELSE IF m < 8 * TwoP24 THEN 8 ELSE 16
        q == m \div u
        r == m % u
        q1 == IF 2 * r < u THEN q ELSE IF 2 * r > u THEN q + 1
              ELSE IF q % 2 = 0 THEN q ELSE q + 1
    IN  IF x < 0 THEN -(q1 * u) ELSE q1 * u

\* longest window followed
DotMaxN == 148471

\* window lengths: below, at and past one block of 16, the first flush
\* periods of 256 blocks, and a long window
DotLens == {0, 1, 15, 16, 33, 4112, 4113, 8213, DotMaxN}

\* element i of an array that repeats the pattern pat
Elem(pat, i) == pat[(i % Len(pat)) + 1]

\* Mixed samples, all entries of the LUT: (-120, -8) throughout; (120, 8)
\* and (-8, 120) in turn; (113, 0) throughout.  sdr_cpx16_t holds I and Q as
\* two int8_t.
IQPats ==
    { << LutEntry(136 * 256 + 29) >>,
      << LutEntry(136 * 256 + 157), LutEntry(136 * 256 + 93) >>,
      << LutEntry(152 * 256 + 157) >> }

\* codes with I, Q in {-1, 0, 1}
CodePats == { << <<1, 1>> >>, << <<-1, -1>> >>, << <<1, 0>>, <<-1, 1>>, <<0, -1>> >> }

DotInputs == [N : DotLens, iq : IQPats, code : CodePats]

\* The 16 lanes of 16 bits of a 256-bit register are the tuple
\* << lane 0, ..., lane 15 >>, here with lane k holding f[k].
Lanes16(f) ==
    << f[0], f[1], f[2], f[3], f[4], f[5], f[6], f[7],
       f[8], f[9], f[10], f[11], f[12], f[13], f[14], f[15] >>

ZeroLanes == << 0, 0, 0, 0, 0, 0, 0, 0, 0, 0, 0, 0, 0, 0, 0, 0 >>

\* sum of the 16 lanes, as sum_16x16() adds them in int
LaneSum(y) ==
    y[1] + y[2] + y[3] + y[4] + y[5] + y[6] + y[7] + y[8] + y[9] + y[10]
    + y[11] + y[12] + y[13] + y[14] + y[15] + y[16]

\* One pass of the loop for ( ; i < N - 15; i += 16) adds to lane k of ysumI
\* and ysumQ (_mm256_add_epi16, wrapping) the products of element i + k:
\* ycorr = sign(IQ, code) bytewise, yextI selects the even bytes (I), yextQ
\* the odd bytes (Q).  wrapped records an addition that left 16 bits, nblk
\* the blocks added to the lanes since they were last cleared, maxblk the
\* largest nblk so far.
AddBlock(st) ==
    LET cI(k) == Sign8(Elem(dq_in.iq, st.i + k)[1], Elem(dq_in.code, st.i + k)[1])
        cQ(k) == Sign8(Elem(dq_in.iq, st.i + k)[2], Elem(dq_in.code, st.i + k)[2])
        aI(k) == st.ysumI[k + 1] + Maddubs(1, cI(k), 0, cQ(k))
        aQ(k) == st.ysumQ[k + 1] + Maddubs(0, cI(k), 1, cQ(k))
        wI(k) == Wrap16(aI(k))
        wQ(k) == Wrap16(aQ(k))
    IN  [st EXCEPT !.ysumI = Lanes16([k \in 0 .. 15 |-> wI(k)]),
                   !.ysumQ = Lanes16([k \in 0 .. 15 |-> wQ(k)]),
                   !.wrapped = @ \/ \E k \in 0 .. 15 :
                                       aI(k) # Wrap16(aI(k)) \/ aQ(k) # Wrap16(aQ(k)),
                   !.nblk = @ + 1,
                   !.maxblk = IF st.nblk + 1 > @ THEN st.nblk + 1 ELSE @]

\* if (i % (16 * 256) == 0)
FlushDue(i) == i % (16 * 256) = 0

\* sum_16x16(ysumI, (*c)[0]) and sum_16x16(ysumQ, (*c)[1]): the lane totals
\* are added to the float sums and the lanes cleared
Flush(st) ==
    [st EXCEPT !.c = << F32(st.c[1] + LaneSum(st.ysumI)), F32(st.c[2] + LaneSum(st.ysumQ)) >>,
               !.ysumI = ZeroLanes,
               !.ysumQ = ZeroLanes,
               !.nblk = 0]

\* one pass of the loop: the block is added, the lanes are flushed if due,
\* i += 16; brk marks a pass that flushed
Pass(st) ==
    LET a == AddBlock(st)
    IN  IF FlushDue(st.i)
        THEN [Flush(a) EXCEPT !.i = @ + 16, !.brk = TRUE]
        ELSE [a EXCEPT !.i = @ + 16]

\* at most n passes of the loop from index st.i, up to and including the
\* next flush inside the loop or up to the end of the loop
RECURSIVE Passes(_, _)
Passes(st, n) ==
    IF n = 0 \/ st.brk \/ ~(st.i < dq_in.N - 15) THEN st
    ELSE Passes(Pass(st), n - 1)

\* the passes from index st.i up to and including the next flush inside the
\* loop, or up to the end of the loop, taken 16 at a time
RECURSIVE BlockRun(_)
BlockRun(st) ==
    IF st.brk \/ ~(st.i < dq_in.N - 15) THEN [st EXCEPT !.brk = FALSE]
    ELSE BlockRun(Passes(st, 16))

\* for ( ; i < N; i++) { (*c)[0] += IQ[i].I * code[i].I; (*c)[1] += ... }
RECURSIVE ScalarTail(_)
ScalarTail(st) ==
    IF st.i >= dq_in.N THEN st
    ELSE ScalarTail([st EXCEPT
             !.i = @ + 1,
             !.c = << F32(st.c[1] + Elem(dq_in.iq, st.i)[1] * Elem(dq_in.code, st.i)[1]),
                      F32(st.c[2] + Elem(dq_in.iq, st.i)[2] * Elem(dq_in.code, st.i)[2]) >>])

\* entry of dot_IQ_code(): i = 0, (*c)[0] = (*c)[1] = 0.0f, ysumI = ysumQ = 0
DotStart ==
    [pc |-> "loop", i |-> 0, ysumI |-> ZeroLanes, ysumQ |-> ZeroLanes, c |-> <<0, 0>>,
     nblk |-> 0, maxblk |-> 0, wrapped |-> FALSE, brk |-> FALSE]

DotInit ==
    /\ dq_in \in DotInputs
    /\ dq = DotStart

DotIdle ==
    /\ dq_in = [N |-> 0, iq |-> << <<0, 0>> >>, code |-> << <<0, 0>> >>]
    /\ dq = [DotStart EXCEPT !.pc = "done"]

\* the AVX2 loop, one flush period at a time
DotLoop ==
    /\ dq.pc = "loop"
    /\ dq.i < dq_in.N - 15
    /\ dq' = BlockRun(dq)
    /\ UNCHANGED dq_in

\* the loop is left: the two sum_16x16() after it, then the scalar loop;
\* c holds the sums the final (*c)[k] *= s / CSCALE scales
DotTail ==
    /\ dq.pc = "loop"
    /\ ~(dq.i < dq_in.N - 15)
    /\ dq' = [ScalarTail(Flush(dq)) EXCEPT !.pc = "done"]
    /\ UNCHANGED dq_in

-----
\* Specifications

Init == PlanInit /\ MixIdle /\ PeakIdle /\ FineIdle /\ BinsIdle /\ SearchIdle /\ VecIdle /\ DotIdle

Next ==
    \/ /\ \E t \in Threads, N \in ReqLens : Lock(t, N)
       /\ UNCHANGED <<mixVars, peakVars, fineVars, binsVars, searchVars, vecVars, dotVars>>
    \/ /\ \E t \in Threads : CheckEmpty(t)
       /\ UNCHANGED <<mixVars, peakVars, fineVars, binsVars, searchVars, vecVars, dotVars>>
    \/ /\ \E t \in Threads : CheckMatch(t)
       /\ UNCHANGED <<mixVars, peakVars, fineVars, binsVars, searchVars, vecVars, dotVars>>
    \/ /\ \E t \in Threads : Overflow(t)
       /\ UNCHANGED <<mixVars, peakVars, fineVars, binsVars, searchVars, vecVars, dotVars>>
    \/ /\ \E t \in Threads : Execute(t)
       /\ UNCHANGED <<mixVars, peakVars, fineVars, binsVars, searchVars, vecVars, dotVars>>

Spec == Init /\ [][Next]_vars

InitMix == PlanInit /\ MixInit /\ PeakIdle /\ FineIdle /\ BinsIdle /\ SearchIdle /\ VecIdle /\ DotIdle

NextMix ==
    \/ /\ sdr_func_init
       /\ UNCHANGED <<planVars, peakVars, fineVars, binsVars, searchVars, vecVars, dotVars>>
    \/ /\ sdr_mix_carr(mixcall.buff, mixcall.ix, mixcall.N, mixcall.phi, mixcall.step)
       /\ UNCHANGED <<planVars, peakVars, fineVars, binsVars, searchVars, vecVars, dotVars>>

SpecMix == InitMix /\ [][NextMix]_vars

InitPeak == PlanInit /\ MixIdle /\ PeakInit /\ FineIdle /\ BinsIdle /\ SearchIdle /\ VecIdle /\ DotIdle

NextPeak ==
    /\ sdr_corr_max
    /\ UNCHANGED <<planVars, mixVars, fineVars, binsVars, searchVars, vecVars, dotVars>>

SpecPeak == InitPeak /\ [][NextPeak]_vars

InitFine == PlanInit /\ MixIdle /\ PeakIdle /\ FineInit /\ BinsIdle /\ SearchIdle /\ VecIdle /\ DotIdle

NextFine ==
    /\ sdr_fine_dop
    /\ UNCHANGED <<planVars, mixVars, peakVars, binsVars, searchVars, vecVars, dotVars>>

SpecFine == InitFine /\ [][NextFine]_vars

InitBins == PlanInit /\ MixIdle /\ PeakIdle /\ FineIdle /\ BinsInit /\ SearchIdle /\ VecIdle /\ DotIdle

NextBins ==
    /\ sdr_dop_bins
    /\ UNCHANGED <<planVars, mixVars, peakVars, fineVars, searchVars, vecVars, dotVars>>

SpecBins == InitBins /\ [][NextBins]_vars

InitSearch ==
    /\ PlanInit \/ PlanFull
    /\ MixIdle /\ PeakIdle /\ FineIdle /\ BinsIdle /\ SearchInit /\ VecIdle /\ DotIdle

NextSearch ==
    /\ sdr_search_code
    /\ UNCHANGED <<mixVars, peakVars, fineVars, binsVars, vecVars, dotVars>>

SpecSearch == InitSearch /\ [][NextSearch]_vars

---------------------------------------------------------------------

InitVec ==
    /\ PlanInit /\ MixReady /\ PeakIdle /\ FineIdle /\ BinsIdle /\ SearchIdle
    /\ VecInit /\ DotIdle

NextVec ==
    /\ mix_carr_avx2
    /\ UNCHANGED <<planVars, mixVars, peakVars, fineVars, binsVars, searchVars, dotVars>>

SpecVec == InitVec /\ [][NextVec]_vars

InitDot ==
    /\ PlanInit /\ MixReady /\ PeakIdle /\ FineIdle /\ BinsIdle /\ SearchIdle
    /\ VecIdle /\ DotInit

NextDot ==
    \/ /\ DotLoop
       /\ UNCHANGED <<planVars, mixVars, peakVars, fineVars, binsVars, searchVars, vecVars>>
    \/ /\ DotTail
       /\ UNCHANGED <<planVars, mixVars, peakVars, fineVars, binsVars, searchVars, vecVars>>

SpecDot == InitDot /\ [][NextDot]_vars

-----
\* Claims

\* threads between pthread_mutex_lock and pthread_mutex_unlock
InCS == {t \in Threads : pc[t] \in {"empty", "match"}}

\* every slot is occupied, none by length N
FullWithout(N) == \A i \in Slots : fftw_size[i] # 0 /\ fftw_size[i] # N

\* C1, step part: an occupied slot keeps its length and its plan pair; a
\* slot is filled only if it is the first empty one and the length is in
\* no slot yet.
C1_Step ==
    \A i \in Slots :
        /\ fftw_size[i] # 0 =>
               fftw_size'[i] = fftw_size[i] /\ fftw_plans'[i] = fftw_plans[i]
        /\ (fftw_size[i] = 0 /\ fftw_size'[i] # 0) =>
               /\ \A k \in Slots : k < i => fftw_size[k] # 0
               /\ \A k \in Slots : fftw_size[k] # fftw_size'[i]
               /\ fftw_plans'[i] # NullPlan

\* C1: with requests N > 0 the cache never holds more than MAX_FFTW_PLAN
\* entries, an entry once created is never changed or evicted, an entry is
\* created only on the first request for a length and in the first empty
\* slot, and all requests for a length get one and the same plan pair.
C1_CacheStable ==
    /\ [](Used <= MAX_FFTW_PLAN /\ \A n \in DOMAIN handed : Cardinality(handed[n]) <= 1)
    /\ [][C1_Step]_vars

\* C1 witness: two calls for one length have both returned the cached pair
\* while a second length is cached as well
C1_Witness ==
    /\ pc[1] = "done" /\ pc[2] = "done"
    /\ argN[1] = argN[2] /\ ret[1] = 1 /\ ret[2] = 1
    /\ plan[1] = plan[2] /\ plan[1] # NullPlan
    /\ Used >= 2

\* C2: when every slot holds a length other than N, get_fftw_plan(N)
\* returns 0 without touching the cache, and corr_fft() returns with every
\* element of corr as the caller passed it.
C2_FullIsNoOp ==
    /\ [](\A t \in Threads :
            (pc[t] \in {"ret", "done"} /\ FullWithout(argN[t])) =>
                ret[t] = 0 /\ plan[t] = NullPlan /\ corr[t] = OldCorr(argN[t]))
    /\ [][(\E t \in Threads : pc[t] \in {"empty", "match"} /\ FullWithout(argN[t])) =>
             <<fftw_size, fftw_plans, nplan>>' = <<fftw_size, fftw_plans, nplan>>]_vars

\* C2 witness: corr_fft() has returned for a length that found the cache full
C2_Witness ==
    \E t \in Threads :
        pc[t] = "done" /\ FullWithout(argN[t]) /\ ret[t] = 0 /\ Len(corr[t]) = argN[t]

\* C3: at most one thread is between lock and unlock, the mutex is owned
\* exactly by the thread inside (so it is released on every return path), no
\* length is in two slots, and all callers of one length got the same pair.
C3_Mutex ==
    /\ Cardinality(InCS) <= 1
    /\ \A t \in Threads : (t \in InCS) <=> (mtx = t)
    /\ (InCS = {}) => mtx = NoThread
    /\ Cardinality({fftw_size[i] : i \in {k \in Slots : fftw_size[k] # 0}}) = Used
    /\ \A n \in DOMAIN handed : Cardinality(handed[n]) <= 1

\* C3 witness: one thread has just received the pair of a length while the
\* other, inside the mutex, is about to receive the pair of the same length
C3_Witness ==
    \E t, u \in Threads :
        /\ t # u /\ pc[t] = "ret" /\ ret[t] = 1 /\ pc[u] = "match"
        /\ argN[t] = argN[u] /\ fftw_size[li[u]] = argN[u]
        /\ plan[t] = fftw_plans[li[u]]

\* One contiguous scalar pass over the samples buff[(ix + i) mod buff->N] with
\* the 32-bit accumulator p_i = (p0 + i * s) mod 2^32.
RECURSIVE RefLoop(_, _, _, _, _, _, _)
RefLoop(tbl, buff, ix, i, N, p, s) ==
    IF i >= N THEN << >>
    ELSE << tbl[buff[((ix + i) % BuffN) + 1] * 256 + p.hi] >>
         \o RefLoop(tbl, buff, ix, i + 1, N, AddU32(p, s), s)

\* every double of the call converted to uint32_t is below 2^32
ConversionsDefined ==
    \/ mixcall.ix + mixcall.N <= BuffN
    \/ PhiAfter(mixcall.phi, mixcall.step, BuffN - mixcall.ix).hi < 256

\* C4 (as claimed): for every buffer, ix, N <= buff->N, carrier frequency and
\* initial phase the output of sdr_mix_carr() is that of the contiguous
\* scalar pass with p0 = (uint32_t)(phi * scale), s = (uint32_t)(step * scale),
\* also when the window wraps the buffer end.  (A step that leaves n_init
\* alone is a call of sdr_mix_carr().)  The claim is stated here for the
\* calls whose conversions to uint32_t are all defined, where the result
\* does not depend on the build.
C4_WrapEqualsContiguous ==
    [][(n_init' = n_init /\ ConversionsDefined) =>
         IQ' = RefLoop(mix_tbl, mixcall.buff, mixcall.ix, 0, mixcall.N,
                       ToU32(mixcall.phi, "wrap"), ToU32(mixcall.step, "wrap"))]_vars

\* C9 (as claimed): a mixing operation reads the table only when all of it
\* has been written by sdr_func_init(), and once initialized the table never
\* changes.
C9_InitBeforeMix ==
    [][ /\ (IQ' # IQ => mix_tbl = FullTbl)
        /\ (n_init >= 1 => mix_tbl' = mix_tbl) ]_vars

\* C9 (amended): the table is all zero until sdr_func_init() has run and holds
\* the defined entries from then on, whatever is called later, a repeated
\* sdr_func_init() included.
C9_LutAfterInit ==
    /\ n_init = 0 => mix_tbl = ZeroTbl
    /\ n_init >= 1 => mix_tbl = FullTbl

\* C9 witness: sdr_func_init() has run twice and a mixing call after it has
\* read non-zero entries of the table
C9_Witness ==
    /\ n_init >= 2
    /\ mix_tbl = FullTbl
    /\ IQ # << >>
    /\ \E k \in 1 .. Len(IQ) : IQ[k] # <<0, 0>>

\* cells sdr_corr_max() scans, and their position in row-major order
Scanned == (0 .. (cm_in.M - 1)) \X (0 .. (cm_in.Nmax - 1))
CellP(c) == cm_in.P[c[1] * cm_in.N + c[2]]
RowMajor(c) == c[1] * cm_in.Nmax + c[2]

\* C5: after sdr_corr_max() the caller's ix is a scanned cell holding the
\* maximum of the scanned cells, and no scanned cell before it in row-major
\* order holds that maximum
C5_FirstMax ==
    cm_out # "none" =>
        /\ cm_ix \in Scanned
        /\ \A c \in Scanned : CellP(c) <= CellP(cm_ix)
        /\ \A c \in Scanned : CellP(c) = CellP(cm_ix) => RowMajor(cm_ix) <= RowMajor(c)

\* ix_doppler is the first or the last bin
AtEdge == fd_in.ix[0] = 0 \/ fd_in.ix[0] = fd_in.len_fds - 1

\* rows ix_doppler - 1 .. ix_doppler + 1
NearRows == (fd_in.ix[0] - 1) .. (fd_in.ix[0] + 1)

\* C6: sdr_fine_dop() returns fds[ix_doppler] at either end of the bins and
\* when the fit fails, returns the vertex -p1 / (2 p2) exactly when
\* ix_doppler is interior and the fit succeeds, and reads fds and P only in
\* rows ix_doppler - 1 .. ix_doppler + 1
C6_FineDop ==
    fd_out.called =>
        /\ AtEdge => fd_out.ret = [kind |-> "bin", num |-> fd_in.fds[fd_in.ix[0]], den |-> 1]
        /\ fd_out.fit = "fail" =>
               fd_out.ret = [kind |-> "bin", num |-> fd_in.fds[fd_in.ix[0]], den |-> 1]
        /\ (~AtEdge /\ fd_out.fit = "ok") =>
               fd_out.ret = [kind |-> "vertex", num |-> -fd_out.p.p1, den |-> 2 * fd_out.p.p2]
        /\ fd_out.ret.kind = "vertex" => (~AtEdge /\ fd_out.fit = "ok")
        /\ fd_out.rd_fds \subseteq NearRows
        /\ fd_out.rd_P \subseteq {r * fd_in.N + c : r \in NearRows, c \in 0 .. (fd_in.N - 1)}

\* an interior bin whose neighbours coincide: the fit fails, the bin is returned
C6_Witness ==
    /\ fd_out.called
    /\ ~AtEdge
    /\ fd_out.fit = "fail"
    /\ fd_out.ret = [kind |-> "bin", num |-> fd_in.fds[fd_in.ix[0]], den |-> 1]
    /\ fd_out.rd_fds = NearRows

\* the scenario: powers 1, 4, 3 at bins 100, 200, 300 Hz, ix_doppler = 1
Powers143 ==
    /\ fd_out.called
    /\ fd_in.len_fds = 3
    /\ fd_in.fds = Arr(<<100, 200, 300>>)
    /\ fd_in.ix[0] = 1
    /\ fd_in.P[fd_in.ix[1]] = 1
    /\ fd_in.P[fd_in.N + fd_in.ix[1]] = 4
    /\ fd_in.P[2 * fd_in.N + fd_in.ix[1]] = 3

\* C10 as stated: for powers 1, 4, 3 at 100, 200, 300 Hz and ix_doppler = 1
\* sdr_fine_dop() returns a value within 1 Hz of 237.5 Hz
C10_Near237 ==
    Powers143 =>
        /\ fd_out.ret.den # 0
        /\ Abs(2 * fd_out.ret.num - 475 * fd_out.ret.den) <= 2 * Abs(fd_out.ret.den)

\* C10 amended: for powers 1, 4, 3 at 100, 200, 300 Hz and ix_doppler = 1
\* sdr_fine_dop() returns the vertex of the fitted quadratic, which is within
\* 1 Hz of 225 Hz
C10_Near225 ==
    Powers143 =>
        /\ fd_out.ret.kind = "vertex"
        /\ fd_out.ret.den # 0
        /\ Abs(fd_out.ret.num - 225 * fd_out.ret.den) <= Abs(fd_out.ret.den)

C10_Witness ==
    /\ Powers143
    /\ fd_out.fit = "ok"
    /\ fd_out.ret.num = -180000
    /\ fd_out.ret.den = -800

\* the grid sdr_dop_bins() returned follows len = floor(2 max_dop / step) + 1
\* and fds[i] = dop - max_dop + i * step, strictly increasing from
\* dop - max_dop
GridAsComputed ==
    LET step == DOP_STEP \div db_in.T
        K == (2 * db_in.max_dop) \div step + 1
    IN  /\ db_out.len_fds = K
        /\ DOMAIN db_out.fds = 0 .. (K - 1)
        /\ \A i \in 0 .. (K - 1) : db_out.fds[i] = db_in.dop - db_in.max_dop + i * step
        /\ \A i \in 0 .. (K - 2) : db_out.fds[i] < db_out.fds[i + 1]
        /\ db_out.fds[0] = db_in.dop - db_in.max_dop

LastBin == db_out.fds[db_out.len_fds - 1]

\* 2 * max_dop is a whole number of steps
WholeSteps == (2 * db_in.max_dop) % (DOP_STEP \div db_in.T) = 0

LastPower(c) ==
    FAdd(FSqr(sc_last'.C[c[1]][c[2]][1]), FSqr(sc_last'.C[c[1]][c[2]][2]))

\* C8: every sdr_search_code() call leaves each cell of P no smaller than
\* before and >= 0, having added to it once the power re^2 + im^2 of the
\* correlation computed for its Doppler bin
C8_Accumulates ==
    [][sc_n' # sc_n =>
          \A c \in SearchCells :
              /\ FGeq(sc_P'[c], sc_P[c])
              /\ FGeq(sc_P'[c], 0)
              /\ sc_last'.ok
              /\ FEq(sc_P'[c], FAdd(sc_P[c], LastPower(c)))]_vars

\* C11: the AVX2 loop of mix_carr() followed by its scalar tail stores into
\* every IQ[i], i in [0, N), exactly once the entry
\* LUT[(data[i] << 8) | (((p + i * s) mod 2^32) >> 24)], every LUT index lies
\* in [0, 65536), and no byte beyond data[N-1] is loaded
C11_VectorEqualsScalar ==
    av_out.called =>
        /\ Len(av_out.wr) = av_in.N
        /\ {av_out.wr[k].at : k \in 1 .. Len(av_out.wr)} = 0 .. (av_in.N - 1)
        /\ \A k \in 1 .. Len(av_out.wr) :
               LET w == av_out.wr[k]
                   ref == av_in.data[w.at] * 256 + AddU32(av_in.p, MulU32(av_in.s, w.at)).hi
               IN  /\ w.idx = ref
                   /\ w.val = FullTbl[ref]
                   /\ w.idx >= 0 /\ w.idx < 65536
        /\ av_out.rd \subseteq 0 .. (av_in.N - 1)

\* a window taking three passes of the 8-lane loop and a tail, with an
\* accumulator that wraps
C11_Witness ==
    /\ av_out.called
    /\ av_in.N = VecMaxN
    /\ av_in.p = [hi |-> 255, lo |-> TwoP24 - 1]
    /\ av_in.s = [hi |-> 100, lo |-> 5]
    /\ Len(av_out.wr) = VecMaxN
    /\ av_out.rd = 0 .. (VecMaxN - 1)
    /\ \E k \in 1 .. Len(av_out.wr) : av_out.wr[k].val # <<0, 0>>

\* C12: a sdr_search_code() call made while the plan cache is full and holds
\* no plan for N leaves every entry of the power grid P unchanged
C12_FullCacheKeepsP ==
    [][(sc_n' # sc_n /\ FullWithout(SearchN)) => sc_P' = sc_P]_vars

\* Sum over i in [0, n) of IQ[i] * code[i], component k (1 = I, 2 = Q), n
\* below the period of the two patterns
RECURSIVE PartSum(_, _)
PartSum(k, n) ==
    IF n = 0 THEN 0
    ELSE PartSum(k, n - 1) + Elem(dq_in.iq, n - 1)[k] * Elem(dq_in.code, n - 1)[k]

\* the scalar reference sum over i in [0, N), the products repeating with
\* period Len(iq) * Len(code)
RefSum(k) ==
    LET L == Len(dq_in.iq) * Len(dq_in.code)
    IN  (dq_in.N \div L) * PartSum(k, L) + PartSum(k, dq_in.N % L)

\* C13: in the AVX2 path of dot_IQ_code() no 16-bit lane accumulator leaves
\* the signed 16-bit range, at most 256 blocks of 16 elements are added
\* between two flushes, and the sums delivered by the vector loop and the
\* scalar tail are the reference sums of IQ[i].I * code[i].I and
\* IQ[i].Q * code[i].Q
C13_LanesAndSums ==
    /\ ~dq.wrapped
    /\ dq.maxblk <= 256
    /\ dq.pc = "done" => dq.c = <<RefSum(1), RefSum(2)>>

====
